---- MODULE Spec2Model ----
(***************************************************************************)
(* Students REST API (src/main.py): one table `students` behind a          *)
(* data-access class StudentDB and five FastAPI routes.                    *)
(*                                                                         *)
(* The table is a function from primary key to row.  Python's None is the  *)
(* empty sequence and a present value v is <<v>>, so that an optional      *)
(* string and an optional number are never compared with each other.       *)
(* Grades are whole numbers; an average is carried in hundredths.          *)
(*                                                                         *)
(* The routes are plain `def` functions, which FastAPI runs in the threads *)
(* of a pool, and every StudentDB method opens its own session: a request  *)
(* is a sequence of database steps (a SELECT, or the statements of one     *)
(* commit), and the steps of different requests interleave.  The operators *)
(* named after the methods give a method's outcome when no other request   *)
(* takes a step between its steps; the actions take one step each.         *)
(***************************************************************************)
EXTENDS Integers, Sequences, FiniteSets, TLC

\* ------------------------------------------------------------- bounds
\* Largest primary key the table hands out under Spec.
MaxId == 2
\* Largest primary key the table hands out under SpecCsv.
MaxCsvId == 3
\* Largest number of data lines in an imported csv file.
MaxRows == 3
\* Largest number of fields one PUT body supplies.
MaxSupplied == 1

\* ------------------------------------------------------------- values
LastNames == {"Ivanov"}
FirstNames == {"Petr"}
Faculties == {"CS", "Math"}
Courses == {"2A"}
Grades == {0, 1}
Ids == 1..MaxId
CsvIds == 1..MaxCsvId

None == <<>>
Some(x) == <<x>>

\* The five columns a request body or a csv row carries (no id).
Fields == {"last_name", "first_name", "faculty", "course", "grade"}

\* A valid POST body: all five fields, typed.
StudentCreate ==
    [last_name : LastNames, first_name : FirstNames, faculty : Faculties,
     course : Courses, grade : Grades]

\* data.dict(exclude_unset=True) of a PUT body: the supplied keys only, each
\* with a value or an explicit null.  A body is built from a mode per field
\* and the values of a full record.
Patch(m, v) ==
    [f \in {g \in Fields : m[g] # "unset"} |->
        IF m[f] = "null" THEN None ELSE Some(v[f])]

StudentUpdate ==
    { Patch(m, v) :
        m \in { n \in [Fields -> {"unset", "null", "value"}] :
                  Cardinality({g \in Fields : n[g] # "unset"}) <= MaxSupplied },
        v \in StudentCreate }

\* ------------------------------------------------------------- the table
Max(S) == CHOOSE x \in S : \A y \in S : y <= x

\* A key taken from the number of rows: a mutant of NextId.
NextIdByCount(t) == Cardinality(DOMAIN t) + 1

\* INTEGER PRIMARY KEY without sqlite_autoincrement: SQLite gives a new row
\* the largest rowid in the table plus one, 1 for an empty table.
NextId(t) == IF DOMAIN t = {} THEN 1 ELSE Max(DOMAIN t) + 1

\* Student(**data.dict()) persisted under key i.
Student(i, d) ==
    [id |-> i, last_name |-> d.last_name, first_name |-> d.first_name,
     faculty |-> d.faculty, course |-> d.course, grade |-> d.grade]

\* The five non-id columns of a row.
Columns(row) == [f \in Fields |-> row[f]]

\* session.add(student); session.commit(): one INSERT and its COMMIT.  The
\* key the row was given stays on the object.
create_student_commit(t, data) ==
    LET i == NextId(t)
    IN  [db |-> (i :> Student(i, data)) @@ t, id |-> i]

\* session.refresh(student): SELECT ... WHERE id = i, the row as it is now;
\* InvalidRequestError when the row is no longer there.
refresh(t, i) ==
    IF i \in DOMAIN t
    THEN [ret |-> Some(t[i]), raised |-> ""]
    ELSE [ret |-> None, raised |-> "InvalidRequestError"]

\* The method with nothing between its commit and its refresh: the row as
\* stored, with its key.
create_student(t, data) ==
    LET c == create_student_commit(t, data)
    IN  [db |-> c.db, ret |-> refresh(c.db, c.id).ret[1]]

\* select(Student) with no ORDER BY: rows in rowid order.
RECURSIVE RowsFrom(_, _)
RowsFrom(t, S) ==
    IF S = {} THEN <<>>
    ELSE LET i == CHOOSE x \in S : \A y \in S : x <= y
         IN  <<t[i]>> \o RowsFrom(t, S \ {i})

get_all_students(t) == RowsFrom(t, DOMAIN t)

\* session.get(Student, student_id): the row or None.
get_student(t, i) == IF i \in DOMAIN t THEN Some(t[i]) ELSE None

\* The columns the unit of work puts in its UPDATE: the attributes that were
\* set and whose new value differs from the value that was loaded.
Modified(loaded, data) == {f \in DOMAIN data : data[f] # Some(loaded[f])}

\* No attribute modified: the commit emits no UPDATE.
NoUpdate == [null |-> FALSE, set |-> <<>>]

\* What the session holds after the setattr loop, as the SET clause of the
\* UPDATE its commit will emit: the modified columns and their values.  A
\* clause that sets a column to NULL is kept as that mark alone, since the
\* statement fails whatever else it sets.
SetClause(loaded, data) ==
    LET cols == Modified(loaded, data)
    IN  IF \E f \in cols : data[f] = None
        THEN [null |-> TRUE, set |-> <<>>]
        ELSE [null |-> FALSE, set |-> [f \in cols |-> data[f][1]]]

\* session.commit() of an update: UPDATE students SET ... WHERE id = i against
\* the table as it is now, then COMMIT.  With nothing modified no statement is
\* emitted.  An UPDATE that matches no row is a StaleDataError; a NULL in a
\* NOT NULL column is an IntegrityError; either rolls the transaction back.
Flush(t, i, p) ==
    IF ~p.null /\ DOMAIN p.set = {} THEN [db |-> t, raised |-> ""]
    ELSE IF i \notin DOMAIN t THEN [db |-> t, raised |-> "StaleDataError"]
    ELSE IF p.null THEN [db |-> t, raised |-> "IntegrityError"]
    ELSE [db |-> [t EXCEPT ![i] =
                    [f \in DOMAIN @ |-> IF f \in DOMAIN p.set THEN p.set[f] ELSE @[f]]],
          raised |-> ""]

\* An update without its `if not student` test, setattr on None raising: a
\* mutant of update_student.
update_student_unchecked(t, i, data) ==
    IF i \notin DOMAIN t
    THEN [db |-> t, ret |-> None, raised |-> "AttributeError"]
    ELSE LET r == Flush(t, i, SetClause(t[i], data))
         IN  IF r.raised # ""
             THEN [db |-> t, ret |-> None, raised |-> r.raised]
             ELSE [db |-> r.db, ret |-> refresh(r.db, i).ret, raised |-> ""]

\* The method with nothing between its get, its commit and its refresh.
update_student(t, i, data) ==
    IF get_student(t, i) = None
    THEN [db |-> t, ret |-> None, raised |-> ""]
    ELSE LET r == Flush(t, i, SetClause(get_student(t, i)[1], data))
         IN  IF r.raised # ""
             THEN [db |-> t, ret |-> None, raised |-> r.raised]
             ELSE [db |-> r.db, ret |-> refresh(r.db, i).ret, raised |-> ""]

\* A commit that deletes nothing: a mutant of delete_student_commit.
delete_student_uncommitted(t, i) == t

\* session.delete(student); session.commit(): DELETE FROM students WHERE
\* id = i and its COMMIT.  A DELETE that matches no row is only warned about.
delete_student_commit(t, i) == [j \in DOMAIN t \ {i} |-> t[j]]

\* The method with nothing between its get and its commit.
delete_student(t, i) ==
    IF get_student(t, i) = None
    THEN [db |-> t, ret |-> FALSE]
    ELSE [db |-> delete_student_commit(t, i), ret |-> TRUE]

\* ------------------------------------------------------------- average
RECURSIVE GradeSum(_, _)
GradeSum(t, S) ==
    IF S = {} THEN 0
    ELSE LET i == CHOOSE x \in S : TRUE
         IN  t[i].grade + GradeSum(t, S \ {i})

Abs(x) == IF x < 0 THEN -x ELSE x

RECURSIVE Gcd(_, _)
Gcd(a, b) == IF b = 0 THEN a ELSE Gcd(b, a % b)

RECURSIVE IsPowerOfTwo(_)
IsPowerOfTwo(d) == d = 1 \/ (d % 2 = 0 /\ IsPowerOfTwo(d \div 2))

\* The k with 2^k <= p / d < 2^(k + 1), for p, d > 0.
RECURSIVE FloorLog2(_, _)
FloorLog2(p, d) ==
    IF p >= 2 * d THEN FloorLog2(p, 2 * d) + 1
    ELSE IF p < d THEN FloorLog2(2 * p, d) - 1
    ELSE 0

\* 2^e modulo d.
RECURSIVE Pow2Mod(_, _)
Pow2Mod(e, d) == IF e = 0 THEN 1 % d ELSE (2 * Pow2Mod(e - 1, d)) % d

\* Whether the float nearest to p / d (53 significant bits) is larger than
\* p / d, for a fraction in lowest terms whose d is no power of two: the bits
\* of p / d after the 53rd are more than half a unit of the last place.
FloatIsAbove(p, d) ==
    LET e == 52 - FloorLog2(p, d)
        rem == ((p % d) * Pow2Mod(e, d)) % d
    IN  2 * rem > d

\* round(s / n, 2) in hundredths, s the sum SQLite's avg() divides by n.  The
\* quotient is a float and round() rounds the float's exact value to the
\* nearest hundredth, a tie to the even one.  When s / n lies halfway between
\* two hundredths the float is exactly s / n only if s / n is a dyadic
\* fraction; otherwise the float lies above or below the halfway point and
\* that decides the result.  The magnitude is rounded and the sign put back.
RoundHundredths(s, n) ==
    LET a == Abs(s)
        q == (100 * a) \div n
        r == (100 * a) - q * n
        g == Gcd(a, n)
        m == IF 2 * r < n THEN q
             ELSE IF 2 * r > n THEN q + 1
             ELSE IF IsPowerOfTwo(n \div g)
                  THEN (IF q % 2 = 0 THEN q ELSE q + 1)
             ELSE IF FloatIsAbove(a \div g, n \div g) THEN q + 1 ELSE q
    IN  IF s < 0 THEN -m ELSE m

\* select avg(grade) where faculty = ?: NULL over no rows.  The result goes
\* through `round(avg_grade, 2) if avg_grade else None`, and 0.0 is falsy.
get_avg_grade_by_faculty(t, faculty_name) ==
    LET match == {i \in DOMAIN t : t[i].faculty = faculty_name}
        s == GradeSum(t, match)
    IN  IF match = {} THEN None
        ELSE IF s = 0 THEN None
        ELSE Some(RoundHundredths(s, Cardinality(match)))

\* ------------------------------------------------------------- csv import
\* The five names assigned to df.columns.
HeaderCols == 5

\* The text of a numeric cell and the number pandas / float() reads from it.
\* These texts are the canonical spelling of their numbers, so the type
\* pandas infers for a column of them does not change what is stored.
NumberText == ("-1" :> -1) @@ ("0" :> 0) @@ ("1" :> 1)
IsNumber(s) == s \in DOMAIN NumberText
to_float(s) == NumberText[s]
TextOf(g) == CHOOSE s \in DOMAIN NumberText : NumberText[s] = g

\* The cells read_csv reads as a missing value (NaN): its default na_values,
\* the empty cell among them.
NaValues ==
    {"", "#N/A", "#N/A N/A", "#NA", "-1.#IND", "-1.#QNAN", "-NaN", "-nan",
     "1.#IND", "1.#QNAN", "<NA>", "N/A", "NA", "NULL", "NaN", "None", "n/a",
     "nan", "null"}
IsNa(cell) == cell \in NaValues

\* A csv file is given by its data lines, the lines after the header line of
\* five names; a line is its sequence of cells, "" an empty cell.  A line
\* with no text at all reads as one empty cell.
IsBlank(line) == line = <<>> \/ line = <<"">>

\* skip_blank_lines=True, the default: blank lines are dropped before the
\* lines are counted or measured.
NonBlank(lines) == SelectSeq(lines, LAMBDA line : ~IsBlank(line))

Pad(line, w) == line \o [k \in 1..(w - Len(line)) |-> ""]

\* pd.read_csv: blank lines are skipped; the first data line may be longer
\* than the header, and its extra leading cells become the index; a later line
\* longer than that is a ParserError; a shorter line is filled with NaN on the
\* right.
read_csv(lines) ==
    LET data == NonBlank(lines)
        w == IF data # <<>> /\ Len(data[1]) > HeaderCols
             THEN Len(data[1]) ELSE HeaderCols
    IN  IF \E k \in 2..Len(data) : Len(data[k]) > w
        THEN [raised |-> "ParserError", frame |-> <<>>]
        ELSE [raised |-> "",
              frame |-> [k \in 1..Len(data) |->
                            SubSeq(Pad(data[k], w), w - HeaderCols + 1, w)]]

\* What the flush of the pending inserts refuses: NaN is bound as NULL and
\* every column is NOT NULL; the Float column's bind converts with float().
FlushRefuses(frame) ==
    \E k \in 1..Len(frame) :
        \/ \E c \in 1..HeaderCols : IsNa(frame[k][c])
        \/ ~IsNumber(frame[k][HeaderCols])

\* The session's pending inserts, flushed by the one commit after the loop,
\* each row given its key in turn.
RECURSIVE AddAll(_, _)
AddAll(t, frame) ==
    IF frame = <<>> THEN t
    ELSE LET c == Head(frame)
             d == [last_name |-> c[1], first_name |-> c[2], faculty |-> c[3],
                   course |-> c[4], grade |-> to_float(c[5])]
         IN  AddAll(create_student_commit(t, d).db, Tail(frame))

\* An import that commits inside its loop, row by row: a mutant of
\* insert_from_csv.
RECURSIVE AddAndCommitEach(_, _)
AddAndCommitEach(t, frame) ==
    IF frame = <<>> THEN [db |-> t, raised |-> ""]
    ELSE IF FlushRefuses(<<Head(frame)>>)
         THEN [db |-> t, raised |-> "StatementError"]
         ELSE AddAndCommitEach(AddAll(t, <<Head(frame)>>), Tail(frame))

insert_from_csv_commit_each(t, lines) ==
    LET df == read_csv(lines)
    IN  IF df.raised # "" THEN [db |-> t, raised |-> df.raised]
        ELSE AddAndCommitEach(t, df.frame)

\* read_csv, then one session: an add per row and a single commit.  A
\* ParserError comes before the session is opened; a failure of the flush
\* (recorded as StatementError) rolls the one transaction back.
insert_from_csv(t, lines) ==
    LET df == read_csv(lines)
    IN  IF df.raised # "" THEN [db |-> t, raised |-> df.raised]
        ELSE IF FlushRefuses(df.frame)
        THEN [db |-> t, raised |-> "StatementError"]
        ELSE [db |-> AddAll(t, df.frame), raised |-> ""]

\* ------------------------------------------------------------- routes
Response(code, detail, status, rows, value) ==
    [code |-> code, detail |-> detail, status |-> status, rows |-> rows,
     value |-> value]

Ok(rows) == Response(200, "", "", rows, None)
\* HTTPException(status_code=404, detail="Student not found")
NotFound == Response(404, "Student not found", "", <<>>, None)
\* An exception no handler catches.
ServerError == Response(500, "Internal Server Error", "", <<>>, None)
\* {"status": "deleted"}
Deleted == Response(200, "", "deleted", <<>>, None)
\* Nothing is being returned.
NoResponse == Response(0, "", "", <<>>, None)

\* The operation an answer belongs to, with the id in its path (0 for none).
Request(op, id) == [op |-> op, id |-> id]
NoRequest == Request("none", 0)

\* The routes, each with nothing between the steps of its method.
route_create_student(t, student) ==
    LET r == create_student(t, student)
    IN  [db |-> r.db, response |-> Ok(<<r.ret>>)]

route_get_students(t) == [db |-> t, response |-> Ok(get_all_students(t))]

route_get_student(t, student_id) ==
    LET student == get_student(t, student_id)
    IN  [db |-> t, response |-> IF student = None THEN NotFound ELSE Ok(student)]

route_update_student(t, student_id, data) ==
    LET r == update_student(t, student_id, data)
    IN  [db |-> r.db,
         response |-> IF r.raised # "" THEN ServerError
                      ELSE IF r.ret = None THEN NotFound
                      ELSE Ok(r.ret)]

route_delete_student(t, student_id) ==
    LET r == delete_student(t, student_id)
    IN  [db |-> r.db,
         response |-> IF ~r.ret THEN NotFound ELSE Deleted]

\* ------------------------------------------------------------- state
VARIABLES
    students,   \* the table: primary key -> row
    assigned,   \* every primary key the table has handed out so far
    request,    \* the operation whose answer is being returned, and its id
    response,   \* the answer being returned
    pc,         \* per thread: the step its request is about to take
    sid,        \* per thread: the primary key its session's object has
    pending,    \* per thread: the SET clause its session's commit will emit
    body,       \* per thread: the body of its POST, or of its PUT in a race
    committed,  \* the race of two PUTs: the order of their commits
    before      \* the race of two PUTs: the table when they arrived

vars == <<students, assigned, request, response, pc, sid, pending, body,
          committed, before>>
race == <<committed, before>>

\* The threads that serve requests of more than one step.
Workers == {"A", "B"}

\* The lines the model imports: two well-formed lines; the first of them with
\* its grade missing, with a cell added in front, with a text grade, with its
\* faculty spelled "NA", with both; and a blank line.
CsvGood ==
    { <<"Ivanov", "Petr", "CS", "2A", "1">>,
      <<"Ivanov", "Petr", "Math", "2A", "0">> }
CsvBad ==
    { <<"Ivanov", "Petr", "CS", "2A">>,
      <<"7", "Ivanov", "Petr", "CS", "2A", "1">>,
      <<"Ivanov", "Petr", "CS", "2A", "abc">>,
      <<"Ivanov", "Petr", "NA", "2A", "1">>,
      <<"7", "Ivanov", "Petr", "NA", "2A", "1">>,
      <<"">> }
CsvFiles == UNION { [1..n -> CsvGood \cup CsvBad] : n \in 0..MaxRows }

\* StudentDB() on a new database file: create_all makes an empty table.  No
\* request is in flight.
Init ==
    /\ students = <<>>
    /\ assigned = {}
    /\ request = NoRequest
    /\ response = NoResponse
    /\ pc = [w \in Workers |-> "idle"]
    /\ sid = [w \in Workers |-> 0]
    /\ pending = [w \in Workers |-> NoUpdate]
    /\ body = [w \in Workers |-> <<>>]
    /\ committed = <<>>
    /\ before = <<>>

\* No answer is on its way out.  request and response show the answer of the
\* step just taken; Return forgets it and changes nothing else, so the steps
\* wait for it without losing an interleaving of the database steps.
Quiet == request = NoRequest

Return ==
    /\ ~Quiet
    /\ request' = NoRequest
    /\ response' = NoResponse
    /\ UNCHANGED <<students, assigned, pc, sid, pending, body, race>>

\* A thread's request is answered: its session is closed.
Answer(w, op, id, answer) ==
    /\ request' = Request(op, id)
    /\ response' = answer
    /\ pc' = [pc EXCEPT ![w] = "idle"]
    /\ sid' = [sid EXCEPT ![w] = 0]
    /\ pending' = [pending EXCEPT ![w] = NoUpdate]
    /\ body' = [body EXCEPT ![w] = <<>>]

\* POST /students/: session.add(student); session.commit()
PostCommit(w) ==
    /\ Quiet
    /\ pc[w] = "idle"
    /\ \E student \in StudentCreate :
          LET c == create_student_commit(students, student)
          IN  /\ c.id \in Ids
              /\ students' = c.db
              /\ assigned' = assigned \cup {c.id}
              /\ pc' = [pc EXCEPT ![w] = "post_refresh"]
              /\ sid' = [sid EXCEPT ![w] = c.id]
              /\ body' = [body EXCEPT ![w] = student]
    /\ UNCHANGED <<request, response, pending, race>>

\* POST /students/: session.refresh(student); return student
PostRefresh(w) ==
    /\ Quiet
    /\ pc[w] = "post_refresh"
    /\ LET r == refresh(students, sid[w])
       IN  Answer(w, "create", sid[w], IF r.raised # "" THEN ServerError ELSE Ok(r.ret))
    /\ UNCHANGED <<students, assigned, race>>

\* GET /students/
GetStudents ==
    LET r == route_get_students(students)
    IN  /\ Quiet
        /\ request' = Request("list", 0)
        /\ response' = r.response
        /\ UNCHANGED <<students, assigned, pc, sid, pending, body, race>>

\* GET /students/{student_id}
GetStudent ==
    \E student_id \in Ids :
        LET r == route_get_student(students, student_id)
        IN  /\ Quiet
            /\ request' = Request("get", student_id)
            /\ response' = r.response
            /\ UNCHANGED <<students, assigned, pc, sid, pending, body, race>>

\* PUT /students/{student_id}: session.get, then either `return None` and the
\* route's 404, or the setattr loop on the object that was loaded.
PutGet(w) ==
    /\ Quiet
    /\ pc[w] = "idle"
    /\ \E student_id \in Ids, data \in StudentUpdate :
          LET student == get_student(students, student_id)
              r == route_update_student(students, student_id, data)
          IN  IF student = None
              THEN /\ Answer(w, "update", student_id, r.response)
                   /\ students' = r.db
              ELSE /\ pc' = [pc EXCEPT ![w] = "put_commit"]
                   /\ sid' = [sid EXCEPT ![w] = student_id]
                   /\ pending' = [pending EXCEPT ![w] = SetClause(student[1], data)]
                   /\ UNCHANGED <<students, request, response, body>>
    /\ UNCHANGED <<assigned, race>>

\* PUT: session.commit().  An exception goes through the route uncaught.
Commit(w) ==
    /\ Quiet
    /\ pc[w] = "put_commit"
    /\ LET r == Flush(students, sid[w], pending[w])
       IN  /\ students' = r.db
           /\ IF r.raised # ""
              THEN Answer(w, "update", sid[w], ServerError)
              ELSE /\ pc' = [pc EXCEPT ![w] = "put_refresh"]
                   /\ pending' = [pending EXCEPT ![w] = NoUpdate]
                   /\ UNCHANGED <<request, response, sid, body>>
    /\ UNCHANGED assigned

PutCommit(w) == Commit(w) /\ UNCHANGED race

\* PUT: session.refresh(student); return student
PutRefresh(w) ==
    /\ Quiet
    /\ pc[w] = "put_refresh"
    /\ LET r == refresh(students, sid[w])
       IN  Answer(w, "update", sid[w], IF r.raised # "" THEN ServerError ELSE Ok(r.ret))
    /\ UNCHANGED <<students, assigned, race>>

\* DELETE /students/{student_id}, for the ids of I: session.get, then either
\* `return False` and the route's 404, or on to the delete.
DeleteGet(I, w) ==
    /\ Quiet
    /\ pc[w] = "idle"
    /\ \E student_id \in I :
          LET student == get_student(students, student_id)
              r == route_delete_student(students, student_id)
          IN  IF student = None
              THEN /\ Answer(w, "delete", student_id, r.response)
                   /\ students' = r.db
              ELSE /\ pc' = [pc EXCEPT ![w] = "delete_commit"]
                   /\ sid' = [sid EXCEPT ![w] = student_id]
                   /\ UNCHANGED <<students, request, response, pending, body>>
    /\ UNCHANGED <<assigned, race>>

DeleteStudentGet(w) == DeleteGet(Ids, w)

\* DELETE: session.delete(student); session.commit(); return True
DeleteCommit(w) ==
    /\ Quiet
    /\ pc[w] = "delete_commit"
    /\ students' = delete_student_commit(students, sid[w])
    /\ Answer(w, "delete", sid[w], Deleted)
    /\ UNCHANGED <<assigned, race>>

\* db.get_avg_grade_by_faculty(faculty_name)
AvgGradeByFaculty ==
    \E faculty_name \in Faculties :
        /\ Quiet
        /\ request' = Request("avg", 0)
        /\ response' = Response(0, "", "", <<>>,
                                get_avg_grade_by_faculty(students, faculty_name))
        /\ UNCHANGED <<students, assigned, pc, sid, pending, body, race>>

Next ==
    \/ \E w \in Workers : PostCommit(w)
    \/ \E w \in Workers : PostRefresh(w)
    \/ GetStudents
    \/ GetStudent
    \/ \E w \in Workers : PutGet(w)
    \/ \E w \in Workers : PutCommit(w)
    \/ \E w \in Workers : PutRefresh(w)
    \/ \E w \in Workers : DeleteStudentGet(w)
    \/ \E w \in Workers : DeleteCommit(w)
    \/ AvgGradeByFaculty
    \/ Return

Spec == Init /\ [][Next]_vars

\* ------------------------------------------------------------- csv import
\* db.insert_from_csv(csv_path): the file is read, then one commit holds every
\* INSERT.  No route calls it, so the answer recorded is the exception's name
\* ("" for none).
InsertFromCsv ==
    \E lines \in CsvFiles :
        LET r == insert_from_csv(students, lines)
        IN  /\ Quiet
            /\ DOMAIN r.db \subseteq CsvIds
            /\ students' = r.db
            /\ assigned' = assigned \cup (DOMAIN r.db \ DOMAIN students)
            /\ request' = Request("import", 0)
            /\ response' = Response(0, r.raised, "", <<>>, None)
            /\ UNCHANGED <<pc, sid, pending, body, race>>

\* The thread that deletes while files are imported.
CsvWorker == "A"

DeleteImportedGet == DeleteGet(CsvIds, CsvWorker)
DeleteImportedCommit == DeleteCommit(CsvWorker)

NextCsv ==
    \/ InsertFromCsv
    \/ DeleteImportedGet
    \/ DeleteImportedCommit
    \/ Return

SpecCsv == Init /\ [][NextCsv]_vars

\* ------------------------------------------------------------- two PUTs
\* Two PUT /students/{id} requests for the one row of the table, in two
\* threads.  pysqlite opens a transaction at the first UPDATE, so the SELECT
\* of session.get holds no lock, and the UPDATE and COMMIT of session.commit()
\* are one step.
ConcId == CHOOSE i \in DOMAIN students : TRUE

\* Bodies for the race: a value or nothing for faculty and for grade.
ConcInputs ==
    { Patch(m, v) :
        m \in { n \in [Fields -> {"unset", "value"}] :
                  \A g \in Fields \ {"faculty", "grade"} : n[g] = "unset" },
        v \in StudentCreate }

\* The table holds one student, just created, and both requests have arrived.
InitConc ==
    \E d \in StudentCreate :
        LET r == route_create_student(<<>>, d)
        IN  /\ students = r.db
            /\ assigned = DOMAIN r.db
            /\ request = NoRequest
            /\ response = NoResponse
            /\ pc = [w \in Workers |-> "arrived"]
            /\ sid = [w \in Workers |-> 0]
            /\ pending = [w \in Workers |-> NoUpdate]
            /\ body \in [Workers -> ConcInputs]
            /\ committed = <<>>
            /\ before = r.db

\* student = session.get(Student, student_id) and the setattr loop
RaceGet(w) ==
    /\ Quiet
    /\ pc[w] = "arrived"
    /\ pc' = [pc EXCEPT ![w] = "put_commit"]
    /\ sid' = [sid EXCEPT ![w] = ConcId]
    /\ pending' = [pending EXCEPT ![w] =
                      SetClause(get_student(students, ConcId)[1], body[w])]
    /\ UNCHANGED <<students, assigned, request, response, body, race>>

\* session.commit()
RaceCommit(w) ==
    /\ Commit(w)
    /\ committed' = Append(committed, w)
    /\ UNCHANGED before

\* session.refresh(student); return student.  The bodies stay for the claim.
RaceRefresh(w) ==
    /\ Quiet
    /\ pc[w] = "put_refresh"
    /\ request' = Request("update", sid[w])
    /\ response' = Ok(refresh(students, sid[w]).ret)
    /\ pc' = [pc EXCEPT ![w] = "idle"]
    /\ UNCHANGED <<students, assigned, sid, pending, body, race>>

NextConc ==
    \/ \E w \in Workers : RaceGet(w)
    \/ \E w \in Workers : RaceCommit(w)
    \/ \E w \in Workers : RaceRefresh(w)
    \/ Return

SpecConc == InitConc /\ [][NextConc]_vars

\* ------------------------------------------------------------- claims
\* Ids a call may name that the table does not hold (one past the bound too).
AbsentIds == (1..(MaxId + 1)) \ DOMAIN students

\* C1: the id a create or import assigns differs from every id that was
\* assigned before, ids of deleted records included.
C1_IdNeverReused ==
    [][\A i \in DOMAIN students' \ DOMAIN students : i \notin assigned]_vars

\* C2: update(id, partial) on an existing id sets exactly the supplied fields
\* to the supplied values and leaves the id, the other fields of the row and
\* every other row as they were.
C2_UpdateSetsExactlySupplied ==
    \A i \in DOMAIN students, data \in StudentUpdate :
        LET r == update_student(students, i, data)
        IN  /\ DOMAIN r.db = DOMAIN students
            /\ \A j \in DOMAIN students \ {i} : r.db[j] = students[j]
            /\ r.db[i].id = i
            /\ \A f \in Fields :
                  IF f \in DOMAIN data
                  THEN Some(r.db[i][f]) = data[f]
                  ELSE r.db[i][f] = students[i][f]
            /\ r.ret = Some(r.db[i])

\* C3: getAverageGrade(f) is no-data exactly when no row has faculty f, and
\* otherwise the mean of the matching grades to the nearest hundredth, a zero
\* or negative mean included.
C3_AvgNoDataIffNoMatch ==
    \A f \in Faculties :
        LET match == {i \in DOMAIN students : students[i].faculty = f}
            avg == get_avg_grade_by_faculty(students, f)
        IN  /\ (avg = None) <=> (match = {})
            /\ match # {} =>
                  /\ avg # None
                  /\ LET d == 100 * GradeSum(students, match)
                                - avg[1] * Cardinality(match)
                     IN  2 * d <= Cardinality(match) /\ -2 * d <= Cardinality(match)

\* C4: for every valid body r and every table, create(r) answers a row whose
\* five fields are r with an id no row had, getById on that id right afterwards
\* answers the same row, and the rows that existed are unchanged.  The create
\* and the getById are calls that run one after the other, with no step of
\* another request between the create's commit and its refresh; and whatever a
\* create answers is the row the table holds under that id at that moment.
C4_CreateThenGet ==
    /\ \A d \in StudentCreate :
          LET r == route_create_student(students, d)
              row == r.response.rows[1]
          IN  /\ r.response.code = 200
              /\ Len(r.response.rows) = 1
              /\ Columns(row) = d
              /\ row.id \notin DOMAIN students
              /\ route_get_student(r.db, row.id).response = Ok(<<row>>)
              /\ \A i \in DOMAIN students : i \in DOMAIN r.db /\ r.db[i] = students[i]
    /\ (request.op = "create" /\ response.code = 200) =>
          route_get_student(students, request.id).response = response

\* C4 witness: a create is answering with the body it was given, as the second
\* row of the table, the first being older.
C4_Witness ==
    /\ request.op = "create"
    /\ response.code = 200
    /\ Cardinality(DOMAIN students) = 2
    /\ request.id = Max(DOMAIN students)
    /\ response.rows[1] = students[request.id]
    /\ Columns(response.rows[1]) \in StudentCreate

\* C5: delete(id) of an existing id succeeds and removes that row only; then
\* getById(id) is 404, a second delete(id) is not-found, the rest is unchanged.
\* Stated of the commit step of every delete whose get found the row; the
\* getById and the second delete are calls that begin after that step.
C5_DeleteRemovesExactlyOne ==
    [][\A w \in Workers :
          /\ (pc[w] = "idle" /\ pc'[w] = "delete_commit") =>
                /\ sid'[w] \in DOMAIN students
                /\ students' = students
          /\ (pc[w] = "delete_commit" /\ pc'[w] = "idle") =>
                /\ request' = Request("delete", sid[w])
                /\ response' = Deleted
                /\ DOMAIN students' = DOMAIN students \ {sid[w]}
                /\ \A j \in DOMAIN students' : students'[j] = students[j]
                /\ get_student(students', sid[w]) = None
                /\ route_get_student(students', sid[w]).response.code = 404
                /\ delete_student(students', sid[w]).ret = FALSE
                /\ route_delete_student(students', sid[w]).response.code = 404
                /\ route_delete_student(students', sid[w]).db = students'
      ]_vars

\* C5 witness: a delete is answering success, having removed a row, and
\* another row is still there.
C5_Witness ==
    /\ request.op = "delete"
    /\ response = Deleted
    /\ students # <<>>
    /\ request.id \in assigned \ DOMAIN students

\* C6: for an id the table does not hold, getById, update with any body and
\* delete answer 404 "Student not found" and leave the table as it was.  Such
\* a call is over after its session.get: it answers in its first step, and
\* only a call whose id the table holds goes on to a commit.
C6_AbsentIdNotFound ==
    [][/\ ( /\ Quiet
            /\ request'.op \in {"get", "update", "delete"}
            /\ pc' = pc
            /\ request'.id \notin DOMAIN students ) =>
             /\ response' = NotFound
             /\ response'.code = 404
             /\ response'.detail = "Student not found"
             /\ students' = students
       /\ \A w \in Workers :
             (pc[w] = "idle" /\ pc'[w] \in {"put_commit", "delete_commit"}) =>
                sid'[w] \in DOMAIN students
      ]_vars

\* C6 witness: an update is answering 404 while the table holds a row.
C6_Witness ==
    /\ request.op = "update"
    /\ response = NotFound
    /\ students # <<>>

\* The text of a stored row's five columns, as a csv line.
AsLine(row) ==
    <<row.last_name, row.first_name, row.faculty, row.course, TextOf(row.grade)>>

\* A well-formed line: five cells, none of them empty, the last a number.
WellFormed(lines) ==
    \A k \in 1..Len(lines) :
        /\ Len(lines[k]) = HeaderCols
        /\ \A c \in 1..HeaderCols : lines[k][c] # ""
        /\ IsNumber(lines[k][HeaderCols])

\* C7: importing n well-formed lines adds exactly n rows, one per line with the
\* line's five values (as a multiset), and getAll() returns them after the rows
\* that were there, which are unchanged; 3 lines into an empty table give 3 rows.
C7_ImportOnePerLine ==
    \A lines \in CsvFiles :
        WellFormed(lines) =>
            LET r == insert_from_csv(students, lines)
                all == get_all_students(r.db)
                new == DOMAIN r.db \ DOMAIN students
            IN  /\ r.raised = ""
                /\ \A i \in DOMAIN students : i \in DOMAIN r.db /\ r.db[i] = students[i]
                /\ Cardinality(new) = Len(lines)
                /\ Len(all) = Cardinality(DOMAIN students) + Len(lines)
                /\ \A i \in DOMAIN r.db : \E k \in 1..Len(all) : all[k] = r.db[i]
                /\ \A i \in new : r.db[i].id = i
                /\ \A i \in new : \E k \in 1..Len(lines) : AsLine(r.db[i]) = lines[k]
                /\ \A k \in 1..Len(lines) :
                      Cardinality({i \in new : AsLine(r.db[i]) = lines[k]})
                        = Cardinality({j \in 1..Len(lines) : lines[j] = lines[k]})

\* A line with the wrong number of cells or a grade that is no number.
Malformed(line) ==
    \/ Len(line) # HeaderCols
    \/ ~IsNumber(line[HeaderCols])

\* C8 as claimed: an import with any malformed line fails and leaves the table
\* as it was.
C8_MalformedAlwaysFails ==
    \A lines \in CsvFiles :
        (\E k \in 1..Len(lines) : Malformed(lines[k])) =>
            LET r == insert_from_csv(students, lines)
            IN  r.raised # "" /\ r.db = students

\* What read_csv and the flush refuse, blank lines aside: a first line of
\* fewer than five cells, a line whose length differs from the first line's,
\* a last cell that is missing or is text that is no number.
Refused(lines) ==
    LET data == NonBlank(lines)
    IN  /\ data # <<>>
        /\ \/ Len(data[1]) < HeaderCols
           \/ \E k \in 1..Len(data) : Len(data[k]) # Len(data[1])
           \/ \E k \in 1..Len(data) : ~IsNumber(data[k][Len(data[k])])

\* What they accept, blank lines aside: lines of one length, five cells or
\* more, whose last five cells are present and whose last cell is a number.
Accepted(lines) ==
    LET data == NonBlank(lines)
    IN  \A k \in 1..Len(data) :
            /\ Len(data[k]) >= HeaderCols
            /\ Len(data[k]) = Len(data[1])
            /\ \A c \in 0..(HeaderCols - 1) : ~IsNa(data[k][Len(data[k]) - c])
            /\ IsNumber(data[k][Len(data[k])])

\* C8 amended: an import that fails leaves the table as it was.  Blank lines
\* aside, an import fails when its first line has fewer than five cells, when
\* a line's length differs from the first line's, or when a line's last cell
\* is missing or is text that is no number; and it succeeds, adding one row
\* per line and leaving the rows that existed unchanged, when every line has
\* the same five or more cells, the last five present and the last a number
\* (cells in front of the last five are taken as the index).
C8_FailedImportPersistsNothing ==
    \A lines \in CsvFiles :
        LET r == insert_from_csv(students, lines)
        IN  /\ r.raised # "" => r.db = students
            /\ Refused(lines) => r.raised # ""
            /\ Accepted(lines) =>
                  /\ r.raised = ""
                  /\ Cardinality(DOMAIN r.db \ DOMAIN students) = Len(NonBlank(lines))
                  /\ \A i \in DOMAIN students : i \in DOMAIN r.db /\ r.db[i] = students[i]

\* C8 witness: an import has failed on a table that holds rows.
C8_Witness ==
    /\ request.op = "import"
    /\ response.detail # ""
    /\ students # <<>>

\* The row a PUT body makes of a row when nothing else runs.
Applied(row, data) ==
    [f \in DOMAIN row |-> IF f \in DOMAIN data THEN data[f][1] ELSE row[f]]

\* C9: two concurrent updates of one row both complete without error; a field
\* both supplied holds the value of the request that committed last, and the
\* row is one that a serial order of the two updates produces.
C9_LastWriteWins ==
    /\ response.code # 500
    /\ (\A w \in Workers : pc[w] = "idle") =>
          LET row0 == before[ConcId]
              row == students[ConcId]
              last == committed[Len(committed)]
          IN  /\ Len(committed) = Cardinality(Workers)
              /\ \A f \in DOMAIN body["A"] \cap DOMAIN body["B"] :
                    Some(row[f]) = body[last][f]
              /\ \/ row = Applied(Applied(row0, body["A"]), body["B"])
                 \/ row = Applied(Applied(row0, body["B"]), body["A"])

\* C10: no stored row has a null field, and an update of an existing id with a
\* body the route accepts is persisted and answered with the updated row.
C10_UpdateNeverFailsOnNull ==
    /\ \A i \in DOMAIN students : Columns(students[i]) \in StudentCreate
    /\ \A i \in DOMAIN students, data \in StudentUpdate :
          LET r == route_update_student(students, i, data)
          IN  /\ r.response.code = 200
              /\ r.response.rows = <<r.db[i]>>
              /\ Columns(r.db[i]) \in StudentCreate

====
